---- MODULE Spec2Model ----
(***************************************************************************)
(* Agbero: performance bonds for AI agents (programs/agbero/src/lib.rs).   *)
(* One bond account and its vault, the six instructions of the program,    *)
(* the ledger balances the instructions move, and the cluster clock.       *)
(*                                                                         *)
(* Strings (bond_id, task_description, proof_uri) are modelled by their    *)
(* byte length: the program only stores them and compares their length.    *)
(* i64 timestamps are modelled at full width as three limbs (see I64).     *)
(***************************************************************************)
EXTENDS Integers, Sequences, FiniteSets, TLC

VARIABLES
    bond,       \* the Bond account (status "Uninitialized" before create_bond)
    balances,   \* lamports of the principal/agent/verifier accounts and of the vault
    now,        \* Clock::get()?.unix_timestamp, an i64
    stray,      \* history: lamports sent to the vault from outside the program and not yet paid out
    result      \* the last instruction processed: its name and how it ended

vars == <<bond, balances, now, stray, result>>

----------------------------------------------------------------------------
(* Program constants *)

MAX_DESCRIPTION_LEN == 500
MIN_COLLATERAL == 1000000
MAX_PROOF_URI_LEN == 200
QUORUM == 3
GRACE_PERIOD == 86400
VOTE_SIZE == 41
MAX_VOTES_BUDGET == 10
MAX_BOND_ID_LEN == 50

\* Bond::MAX_SIZE, the space allocated for the record after the 8-byte discriminator
MAX_SIZE ==
    4 + MAX_BOND_ID_LEN + 32 + 32 + 4 + MAX_DESCRIPTION_LEN + 8 + 8 + 1 + 8 + 8
    + 4 + (VOTE_SIZE * MAX_VOTES_BUDGET) + 4 + (VOTE_SIZE * MAX_VOTES_BUDGET)
    + 4 + MAX_PROOF_URI_LEN + 1

----------------------------------------------------------------------------
(* Bounds of the model *)

MaxVotes == 4            \* verify_work is explored up to this many recorded votes
T0 == 100                \* the clock at the start
DeadlineSoon == 200      \* a deadline the clock passes
AgentFunds == 1500000    \* lamports the principal and the agent start with
StrayFunds == 500000     \* lamports the third party may send to the vault
BondIdLen == 8           \* byte length of the bond_id used
LongVotes == 40          \* vote bound of the long-vote-list specification

----------------------------------------------------------------------------
(* i64 at full width.  TLC's integers are 32-bit, so an i64 is the record  *)
(* [h, m, l] standing for h * 2^60 + m * 2^30 + l with h in -8..7 and      *)
(* m, l in 0..2^30-1 (two's complement: 4 + 30 + 30 bits).                 *)

Limb == 2^30

I64(n) == [h |-> 0, m |-> 0, l |-> n]

I64Max == [h |-> 7, m |-> Limb - 1, l |-> Limb - 1]

I64Lt(a, b) ==
    \/ a.h < b.h
    \/ a.h = b.h /\ a.m < b.m
    \/ a.h = b.h /\ a.m = b.m /\ a.l < b.l

I64Le(a, b) == a = b \/ I64Lt(a, b)

\* a + k for 0 <= k < 2^30: the mathematical sum overflows i64 iff the top limb passes 7
I64AddOverflows(a, k) ==
    LET cl == (a.l + k) \div Limb
        cm == (a.m + cl) \div Limb
    IN  a.h + cm > 7

\* a + k wrapped to 64 bits (what a build without overflow checks computes)
I64WrappingAdd(a, k) ==
    LET sl == a.l + k
        sm == a.m + (sl \div Limb)
        sh == a.h + (sm \div Limb)
    IN  [h |-> IF sh > 7 THEN sh - 16 ELSE sh, m |-> sm % Limb, l |-> sl % Limb]

----------------------------------------------------------------------------
(* Identities and accounts *)

Identities == {"P", "A", "V"}

Vault == "vault"

Accounts == Identities \cup {Vault}

\* the points the clock visits: before the deadline, the deadline, the end of
\* the grace period (past the deadline), one past the grace period
Times ==
    << I64(T0), I64(DeadlineSoon),
       I64(DeadlineSoon + GRACE_PERIOD), I64(DeadlineSoon + GRACE_PERIOD + 1) >>

----------------------------------------------------------------------------
(* The Bond account *)

NoBond ==
    [ bond_id |-> 0, principal |-> "P", agent |-> "P", task_description |-> 0,
      collateral_amount |-> 0, deadline |-> I64(0), status |-> "Uninitialized",
      created_at |-> I64(0), completed_at |-> I64(0),
      verification_votes |-> << >>, slash_votes |-> << >>, proof_uri |-> 0 ]

\* borsh size of the record: strings and vectors carry a 4-byte length prefix
BondSize(b) ==
    4 + b.bond_id + 32 + 32 + 4 + b.task_description + 8 + 8 + 1 + 8 + 8
    + 4 + (VOTE_SIZE * Len(b.verification_votes)) + 4 + (VOTE_SIZE * Len(b.slash_votes))
    + 4 + b.proof_uri + 1

\* an instruction's outcome: the error (or "Ok") and the accounts it leaves
Fail(e) == [err |-> e, bond |-> bond, balances |-> balances, drained |-> FALSE]

\* Account::exit: the record is written back into its fixed space; when it no
\* longer fits, the instruction fails and nothing is kept
Commit(b, bal, dr) ==
    IF BondSize(b) > MAX_SIZE
    THEN Fail("AccountDidNotSerialize")
    ELSE [err |-> "Ok", bond |-> b, balances |-> bal, drained |-> dr]

\* system_program::transfer: fails when the source holds less than the amount
CanTransfer(bal, from, amount) == bal[from] >= amount

Transfer(bal, from, to, amount) ==
    IF from = to THEN bal
    ELSE [bal EXCEPT ![from] = @ - amount, ![to] = @ + amount]

----------------------------------------------------------------------------
(* create_bond *)

\* faulty variant: a deadline equal to the current time is accepted
DeadlineNotPast(deadline) == I64Le(now, deadline)

\* deadline > Clock::get()?.unix_timestamp
DeadlineInFuture(deadline) == I64Lt(now, deadline)

create_bond(principal, agent, task_description, collateral_amount, deadline) ==
    IF bond.status # "Uninitialized" THEN Fail("AccountAlreadyInUse")
    ELSE IF ~(task_description <= MAX_DESCRIPTION_LEN) THEN Fail("DescriptionTooLong")
    ELSE IF ~(collateral_amount >= MIN_COLLATERAL) THEN Fail("CollateralTooLow")
    ELSE IF ~DeadlineInFuture(deadline) THEN Fail("InvalidDeadline")
    ELSE Commit(
            [ bond_id |-> BondIdLen, principal |-> principal, agent |-> agent,
              task_description |-> task_description,
              collateral_amount |-> collateral_amount, deadline |-> deadline,
              status |-> "Pending", created_at |-> now, completed_at |-> I64(0),
              verification_votes |-> << >>, slash_votes |-> << >>, proof_uri |-> 0 ],
            balances, FALSE)

----------------------------------------------------------------------------
(* stake_collateral *)

\* #[derive(Accounts)] StakeCollateral: constraint = bond.agent == agent.key()
StakeCollateralAccounts(agent) == bond.agent = agent

stake_collateral(agent) ==
    IF bond.status = "Uninitialized" THEN Fail("AccountNotInitialized")
    ELSE IF ~StakeCollateralAccounts(agent) THEN Fail("ConstraintRaw")
    ELSE IF ~(bond.status = "Pending") THEN Fail("InvalidBondStatus")
    ELSE IF ~(agent = bond.agent) THEN Fail("UnauthorizedAgent")
    ELSE IF ~CanTransfer(balances, agent, bond.collateral_amount) THEN Fail("InsufficientFunds")
    ELSE Commit([bond EXCEPT !.status = "Active"],
                Transfer(balances, agent, Vault, bond.collateral_amount), FALSE)

----------------------------------------------------------------------------
(* submit_proof *)

\* #[derive(Accounts)] SubmitProof: constraint = bond.agent == agent.key()
SubmitProofAccounts(agent) == bond.agent = agent

\* faulty variant: a proof at the deadline itself is refused
BeforeDeadline(b) == I64Lt(now, b.deadline)

\* Clock::get()?.unix_timestamp <= bond.deadline
WithinDeadline(b) == I64Le(now, b.deadline)

submit_proof(agent, proof_uri) ==
    IF bond.status = "Uninitialized" THEN Fail("AccountNotInitialized")
    ELSE IF ~SubmitProofAccounts(agent) THEN Fail("ConstraintRaw")
    ELSE IF ~(bond.status = "Active") THEN Fail("InvalidBondStatus")
    ELSE IF ~(agent = bond.agent) THEN Fail("UnauthorizedAgent")
    ELSE IF ~WithinDeadline(bond) THEN Fail("DeadlineExceeded")
    ELSE IF ~(proof_uri <= MAX_PROOF_URI_LEN) THEN Fail("ProofUriTooLong")
    ELSE Commit([bond EXCEPT !.proof_uri = proof_uri, !.status = "PendingVerification"],
                balances, FALSE)

----------------------------------------------------------------------------
(* verify_work *)

\* faulty variant: votes are taken as soon as the bond is staked
VotingOpenWhenStaked(b) == b.status \in {"Active", "PendingVerification"}

\* bond.status == BondStatus::PendingVerification
VotingOpen(b) == b.status = "PendingVerification"

\* faulty variant: neither party of the bond may vote
VerifierIsThirdParty(b, verifier) == verifier \notin {b.agent, b.principal}

\* verifier.key() != bond.agent
VerifierIsNotAgent(b, verifier) == verifier # b.agent

verify_work(verifier, approve) ==
    IF bond.status = "Uninitialized" THEN Fail("AccountNotInitialized")
    ELSE IF ~VotingOpen(bond) THEN Fail("InvalidBondStatus")
    ELSE IF ~VerifierIsNotAgent(bond, verifier) THEN Fail("AgentCannotVerify")
    ELSE Commit(
            [bond EXCEPT !.verification_votes =
                Append(@, [verifier |-> verifier, approve |-> approve, timestamp |-> now])],
            balances, FALSE)

----------------------------------------------------------------------------
(* finalize_bond *)

total_votes(b) == Len(b.verification_votes)

approve_votes(b) ==
    Cardinality({i \in 1..Len(b.verification_votes) : b.verification_votes[i].approve})

slash_votes(b) == total_votes(b) - approve_votes(b)

quorum_reached(b) == total_votes(b) >= QUORUM

\* faulty variant: a strict 2/3 threshold
majority_approve_strict(b) == approve_votes(b) * 3 > total_votes(b) * 2

majority_approve(b) == approve_votes(b) * 3 >= total_votes(b) * 2

\* faulty variant: a simple majority of rejections is enough
majority_slash_half(b) == slash_votes(b) * 2 >= total_votes(b)

majority_slash(b) == slash_votes(b) * 3 >= total_votes(b) * 2

\* faulty variant: the deadline disjunct without its status test
FinalizePreconditionNoStatus(b) ==
    \/ b.status = "PendingVerification"
    \/ I64Lt(b.deadline, now)

\* the guard at the top of finalize_bond
FinalizePrecondition(b) ==
    \/ b.status = "PendingVerification"
    \/ b.status = "Active" /\ I64Lt(b.deadline, now)

\* faulty variant: the payment is bond.collateral_amount instead of the vault's balance
SettleCollateralOnly(status, to, amount) ==
    IF ~CanTransfer(balances, Vault, bond.collateral_amount) THEN Fail("InsufficientFunds")
    ELSE Commit([bond EXCEPT !.status = status, !.completed_at = now],
                Transfer(balances, Vault, to, bond.collateral_amount), TRUE)

\* faulty variant: the status and completed_at written before the transfer are
\* kept when the transfer fails
SettleKeepsStatus(status, to, amount) ==
    IF ~CanTransfer(balances, Vault, amount)
    THEN [err |-> "InsufficientFunds",
          bond |-> [bond EXCEPT !.status = status, !.completed_at = now],
          balances |-> balances, drained |-> FALSE]
    ELSE Commit([bond EXCEPT !.status = status, !.completed_at = now],
                Transfer(balances, Vault, to, amount), TRUE)

\* the terminal assignment and payment shared by the three terminal branches and
\* emergency_slash: status and completed_at are written, then the vault pays
\* `amount` to `to`; a failed transfer fails the instruction and nothing is kept
Settle(status, to, amount) ==
    IF ~CanTransfer(balances, Vault, amount) THEN Fail("InsufficientFunds")
    ELSE Commit([bond EXCEPT !.status = status, !.completed_at = now],
                Transfer(balances, Vault, to, amount), TRUE)

\* faulty variant: the grace period ends one second early (>= for >)
GraceElapsedInclusive(b) == I64Le(I64WrappingAdd(b.deadline, GRACE_PERIOD), now)

\* the third branch's test, now > bond.deadline + 86400, on the wrapped sum
GraceElapsed(b) == I64Lt(I64WrappingAdd(b.deadline, GRACE_PERIOD), now)

\* `overflow_checks` is the build's setting: bond.deadline + 86400 panics on i64
\* overflow when set and wraps when not
finalize_bond(executor, overflow_checks) ==
    LET vault_balance == balances[Vault] IN
    IF bond.status = "Uninitialized" THEN Fail("AccountNotInitialized")
    ELSE IF ~FinalizePrecondition(bond) THEN Fail("InvalidBondStatus")
    ELSE IF quorum_reached(bond) /\ majority_approve(bond)
         THEN Settle("Completed", bond.agent, vault_balance)
    ELSE IF quorum_reached(bond) /\ majority_slash(bond)
         THEN Settle("Slashed", bond.principal, vault_balance)
    ELSE IF overflow_checks /\ I64AddOverflows(bond.deadline, GRACE_PERIOD)
         THEN Fail("ProgramFailedToComplete")
    ELSE IF GraceElapsed(bond)
         THEN Settle("Slashed", bond.principal, vault_balance)
    ELSE Fail("QuorumNotReached")

----------------------------------------------------------------------------
(* emergency_slash *)

\* #[derive(Accounts)] EmergencySlash: constraint = bond.principal == principal.key()
EmergencySlashAccounts(principal) == bond.principal = principal

\* faulty variant: only an Active bond may be slashed
EmergencySlashStatusActiveOnly(b) == b.status = "Active"

\* faulty variant: every bond but a Pending one may be slashed
EmergencySlashStatusNotPending(b) == b.status # "Pending"

\* the status guard of emergency_slash
EmergencySlashStatus(b) == b.status = "Active" \/ b.status = "PendingVerification"

emergency_slash(principal) ==
    IF bond.status = "Uninitialized" THEN Fail("AccountNotInitialized")
    ELSE IF ~EmergencySlashAccounts(principal) THEN Fail("ConstraintRaw")
    ELSE IF ~EmergencySlashStatus(bond) THEN Fail("InvalidBondStatus")
    ELSE IF ~(principal = bond.principal) THEN Fail("UnauthorizedPrincipal")
    ELSE Settle("Slashed", principal, balances[Vault])

----------------------------------------------------------------------------
(* Inputs *)

Principals == {"P"}
AgentChoices == {"A"}
DescriptionLens == {MAX_DESCRIPTION_LEN, MAX_DESCRIPTION_LEN + 1}
CollateralChoices == {MIN_COLLATERAL - 1, MIN_COLLATERAL, 2 * MIN_COLLATERAL}
DeadlineChoices == {I64(T0 - 1), I64(T0), I64(DeadlineSoon), I64Max}
ProofUriLens == {MAX_PROOF_URI_LEN, MAX_PROOF_URI_LEN + 1}
Verifiers == {"A", "V"}

----------------------------------------------------------------------------
(* Actions: one per instruction, one for the clock, one for an outside deposit *)

\* the processed instruction's effect on the state
Apply(op, o) ==
    /\ bond' = o.bond
    /\ balances' = o.balances
    /\ stray' = IF o.drained THEN 0 ELSE stray
    /\ result' = [op |-> op, err |-> o.err]
    /\ UNCHANGED now

CreateBond(principal, agent, task_description, collateral_amount, deadline) ==
    Apply("create_bond",
          create_bond(principal, agent, task_description, collateral_amount, deadline))

StakeCollateral(agent) == Apply("stake_collateral", stake_collateral(agent))

SubmitProof(agent, proof_uri) == Apply("submit_proof", submit_proof(agent, proof_uri))

VerifyWork(verifier, approve, cap) ==
    /\ Len(bond.verification_votes) < cap
    /\ Apply("verify_work", verify_work(verifier, approve))

FinalizeBond(executor, overflow_checks) ==
    Apply("finalize_bond", finalize_bond(executor, overflow_checks))

EmergencySlash(principal) == Apply("emergency_slash", emergency_slash(principal))

\* the clock moves to its next point; it starts at the bond's creation
Tick ==
    /\ bond.status # "Uninitialized"
    /\ \E i \in 1..(Len(Times) - 1) : now = Times[i] /\ now' = Times[i + 1]
    /\ result' = [op |-> "tick", err |-> "Ok"]
    /\ UNCHANGED <<bond, balances, stray>>

\* anyone may send lamports to the vault's address: the third party sends StrayFunds
StrayDeposit ==
    /\ bond.status # "Uninitialized"
    /\ CanTransfer(balances, "V", StrayFunds)
    /\ balances' = Transfer(balances, "V", Vault, StrayFunds)
    /\ stray' = stray + StrayFunds
    /\ result' = [op |-> "transfer", err |-> "Ok"]
    /\ UNCHANGED <<bond, now>>

\* Before create_bond.  The rent the principal pays for the two accounts that
\* CreateBond initialises is left out of the balances.
Init ==
    /\ bond = NoBond
    /\ balances = [a \in Accounts |->
                     IF a = Vault THEN 0 ELSE IF a = "V" THEN StrayFunds ELSE AgentFunds]
    /\ now = Times[1]
    /\ stray = 0
    /\ result = [op |-> "none", err |-> "Ok"]

Next ==
    \/ \E p \in Principals, a \in AgentChoices, d \in DescriptionLens,
          c \in CollateralChoices, dl \in DeadlineChoices : CreateBond(p, a, d, c, dl)
    \/ \E c \in Identities : StakeCollateral(c)
    \/ \E c \in Identities, u \in ProofUriLens : SubmitProof(c, u)
    \/ \E c \in Verifiers, ap \in BOOLEAN : VerifyWork(c, ap, MaxVotes)
    \/ \E c \in Identities, oc \in BOOLEAN : FinalizeBond(c, oc)
    \/ \E c \in Identities : EmergencySlash(c)
    \/ Tick
    \/ StrayDeposit

Spec == Init /\ [][Next]_vars

\* One bond with full-length strings on which a single verifier keeps approving:
\* the vote list grows until the record no longer fits its account
NextLongVotes ==
    \/ CreateBond("P", "A", MAX_DESCRIPTION_LEN, MIN_COLLATERAL, I64(DeadlineSoon))
    \/ StakeCollateral("A")
    \/ SubmitProof("A", MAX_PROOF_URI_LEN)
    \/ VerifyWork("V", TRUE, LongVotes)
    \/ FinalizeBond("V", TRUE)

SpecLongVotes == Init /\ [][NextLongVotes]_vars

\* The same bond when the principal votes against it as well, and the clock
\* moves, while the list is short
TickEarly == Len(bond.verification_votes) < MaxVotes /\ Tick

NextVoters ==
    \/ NextLongVotes
    \/ VerifyWork("P", FALSE, MaxVotes)
    \/ TickEarly

SpecVoters == Init /\ [][NextVoters]_vars

\* the clock runs on to the last value an i64 holds
TickToEnd ==
    /\ bond.status # "Uninitialized"
    /\ now = Times[Len(Times)]
    /\ now' = I64Max
    /\ result' = [op |-> "tick", err |-> "Ok"]
    /\ UNCHANGED <<bond, balances, stray>>

Advance == Tick \/ TickToEnd

Finalize == \E oc \in BOOLEAN : FinalizeBond("V", oc)

\* One bond, with a near or the farthest deadline, under a clock that runs to the
\* end of i64 and an executor who keeps calling finalize_bond: both are weakly fair
NextLive ==
    \/ \E dl \in {I64(DeadlineSoon), I64Max} :
            CreateBond("P", "A", MAX_DESCRIPTION_LEN, MIN_COLLATERAL, dl)
    \/ StakeCollateral("A")
    \/ SubmitProof("A", MAX_PROOF_URI_LEN)
    \/ \E ap \in BOOLEAN : VerifyWork("V", ap, MaxVotes)
    \/ Finalize
    \/ Advance

SpecLive == Init /\ [][NextLive]_vars /\ WF_vars(Advance) /\ WF_vars(Finalize)

----------------------------------------------------------------------------
(* Vocabulary of the properties *)

Initialized == bond.status # "Uninitialized"
Live == bond.status \in {"Active", "PendingVerification"}
Terminal == bond.status \in {"Completed", "Slashed"}

Did(op) == result.op = op /\ result.err = "Ok"

\* the tally, counted from the recorded votes
NTotal == Len(bond.verification_votes)
NApprove == Cardinality({i \in DOMAIN bond.verification_votes : bond.verification_votes[i].approve})
NReject == Cardinality({i \in DOMAIN bond.verification_votes : ~bond.verification_votes[i].approve})
ApproveWins == NTotal >= 3 /\ NApprove * 3 >= NTotal * 2
RejectWins == ~ApproveWins /\ NTotal >= 3 /\ NReject * 3 >= NTotal * 2

\* the clock is past deadline + 86400 (as integers, no overflow involved)
GraceOver ==
    /\ ~I64AddOverflows(bond.deadline, GRACE_PERIOD)
    /\ I64Lt(I64WrappingAdd(bond.deadline, GRACE_PERIOD), now)

\* finalize_bond's precondition, read from the state
CanFinalize ==
    \/ bond.status = "PendingVerification"
    \/ bond.status = "Active" /\ I64Lt(bond.deadline, now)

\* the whole vault is paid to `to` in this step
PaidOutTo(to) ==
    balances' = [balances EXCEPT ![Vault] = 0, ![to] = @ + balances[Vault]]

----------------------------------------------------------------------------
(* C1: a bond's status changes only along Pending->Active (stake_collateral),  *)
(* Active->PendingVerification (submit_proof), PendingVerification->Completed  *)
(* (finalize_bond), and Active->Slashed, PendingVerification->Slashed          *)
(* (finalize_bond or emergency_slash); no other status change ever happens.    *)

StatusEdges ==
    { <<"Pending", "Active", "stake_collateral">>,
      <<"Active", "PendingVerification", "submit_proof">>,
      <<"PendingVerification", "Completed", "finalize_bond">>,
      <<"Active", "Slashed", "finalize_bond">>,
      <<"Active", "Slashed", "emergency_slash">>,
      <<"PendingVerification", "Slashed", "finalize_bond">>,
      <<"PendingVerification", "Slashed", "emergency_slash">> }

C1_StatusEdges ==
    [][ (Initialized /\ bond'.status # bond.status)
        => <<bond.status, bond'.status, result'.op>> \in StatusEdges ]_vars

\* an Active bond (no proof, no vote) was slashed by finalize_bond
C1_Witness ==
    /\ bond.status = "Slashed" /\ Did("finalize_bond")
    /\ bond.verification_votes = << >> /\ bond.proof_uri = 0

----------------------------------------------------------------------------
(* C2 as stated: the vault is zero while Pending, equals collateral_amount     *)
(* while Active or PendingVerification, and is zero once Completed or Slashed. *)

----------------------------------------------------------------------------
(* C3: when finalize_bond's precondition holds, the decision is first match    *)
(* wins: with total >= 3 and approve*3 >= total*2 the bond becomes Completed   *)
(* and the vault is paid to the agent; otherwise with total >= 3 and           *)
(* reject*3 >= total*2 it becomes Slashed and the vault is paid to the         *)
(* principal; completed_at is the current time; whatever the current time is.  *)

C3_QuorumDecision ==
    [][ (result'.op = "finalize_bond" /\ CanFinalize)
        => /\ ApproveWins =>
                /\ result'.err = "Ok"
                /\ bond' = [bond EXCEPT !.status = "Completed", !.completed_at = now]
                /\ PaidOutTo(bond.agent)
           /\ RejectWins =>
                /\ result'.err = "Ok"
                /\ bond' = [bond EXCEPT !.status = "Slashed", !.completed_at = now]
                /\ PaidOutTo(bond.principal)
      ]_vars

\* a bond was completed by its votes after deadline + 86400
C3_Witness ==
    /\ bond.status = "Completed" /\ Did("finalize_bond")
    /\ GraceOver /\ bond.completed_at = now

----------------------------------------------------------------------------
(* C4 as stated (its first half): once Completed or Slashed, every later call  *)
(* of stake_collateral, submit_proof, verify_work, finalize_bond or            *)
(* emergency_slash, by any caller, fails with InvalidBondStatus and changes    *)
(* nothing.                                                                    *)

TransitionOps ==
    {"stake_collateral", "submit_proof", "verify_work", "finalize_bond", "emergency_slash"}

C4_TerminalCallsFail ==
    [][ (Terminal /\ result'.op \in TransitionOps)
        => /\ result'.err = "InvalidBondStatus"
           /\ bond' = bond /\ balances' = balances ]_vars

----------------------------------------------------------------------------
(* C5: when finalize_bond's precondition holds and the votes decide nothing    *)
(* (fewer than 3 votes, or neither 2/3 majority), then with now > deadline +   *)
(* 86400 finalize_bond succeeds, sets Slashed, stamps completed_at and pays    *)
(* the whole vault to the principal; at now = deadline + 86400 exactly it does *)
(* not slash.                                                                  *)

AtGraceEnd ==
    /\ ~I64AddOverflows(bond.deadline, GRACE_PERIOD)
    /\ now = I64WrappingAdd(bond.deadline, GRACE_PERIOD)

C5_GraceAutoSlash ==
    [][ (result'.op = "finalize_bond" /\ CanFinalize /\ ~ApproveWins /\ ~RejectWins)
        => /\ GraceOver =>
                /\ result'.err = "Ok"
                /\ bond' = [bond EXCEPT !.status = "Slashed", !.completed_at = now]
                /\ PaidOutTo(bond.principal)
           /\ AtGraceEnd =>
                /\ result'.err = "QuorumNotReached"
                /\ bond' = bond /\ balances' = balances
      ]_vars

\* a bond with a 2:2 vote was slashed by finalize_bond after the grace period
C5_Witness ==
    /\ bond.status = "Slashed" /\ Did("finalize_bond")
    /\ NTotal = 4 /\ NApprove = 2 /\ GraceOver

----------------------------------------------------------------------------
(* C6 as stated: when finalize_bond's precondition holds, the votes decide     *)
(* nothing and now <= deadline + 86400, the call fails with QuorumNotReached   *)
(* and status, votes, completed_at and the balances are unchanged.             *)

\* now <= deadline + 86400 as integers: an i64 clock never passes a sum above i64::MAX
WithinGrace ==
    \/ I64AddOverflows(bond.deadline, GRACE_PERIOD)
    \/ I64Le(now, I64WrappingAdd(bond.deadline, GRACE_PERIOD))

C6_QuorumNotReached ==
    [][ (result'.op = "finalize_bond" /\ CanFinalize /\ ~ApproveWins /\ ~RejectWins
            /\ WithinGrace)
        => /\ result'.err = "QuorumNotReached"
           /\ bond' = bond /\ balances' = balances ]_vars

----------------------------------------------------------------------------
(* C7: whenever the bond is Active or PendingVerification, emergency_slash     *)
(* signed by bond.principal succeeds, whatever the time and the votes: it sets *)
(* Slashed, stamps completed_at and pays the whole vault to the principal.     *)

----------------------------------------------------------------------------
(* C8 as stated: every transition invoked from a status other than its         *)
(* required predecessor fails with InvalidBondStatus and leaves the bond and   *)
(* the vault as they were.                                                     *)

WrongStatus(op) ==
    CASE op = "stake_collateral" -> bond.status # "Pending"
      [] op = "submit_proof" -> bond.status # "Active"
      [] op = "verify_work" -> bond.status # "PendingVerification"
      [] op = "emergency_slash" -> ~Live
      [] op = "finalize_bond" ->
            \/ bond.status = "Pending"
            \/ Terminal
            \/ bond.status = "Active" /\ I64Le(now, bond.deadline)
      [] OTHER -> FALSE

C8_StatusGuards ==
    [][ (Initialized /\ WrongStatus(result'.op))
        => /\ result'.err = "InvalidBondStatus"
           /\ bond' = bond /\ balances' = balances ]_vars

----------------------------------------------------------------------------
(* C9 as stated: with the status each transition requires, stake_collateral    *)
(* and submit_proof signed by an identity other than bond.agent fail with      *)
(* UnauthorizedAgent, emergency_slash signed by an identity other than         *)
(* bond.principal fails with UnauthorizedPrincipal, verify_work signed by      *)
(* bond.agent fails with AgentCannotVerify; the bond and the balances are      *)
(* unchanged in each case.                                                     *)

Rejected(o, e) == o.err = e /\ o.bond = bond /\ o.balances = balances

C9_Authorization ==
    \A c \in Identities :
        /\ (bond.status = "Pending" /\ c # bond.agent)
                => Rejected(stake_collateral(c), "UnauthorizedAgent")
        /\ (bond.status = "Active" /\ c # bond.agent)
                => \A u \in ProofUriLens : Rejected(submit_proof(c, u), "UnauthorizedAgent")
        /\ (Live /\ c # bond.principal)
                => Rejected(emergency_slash(c), "UnauthorizedPrincipal")
        /\ (bond.status = "PendingVerification" /\ c = bond.agent)
                => \A ap \in BOOLEAN : Rejected(verify_work(c, ap), "AgentCannotVerify")

----------------------------------------------------------------------------
(* C10 as stated: the vote list never holds more than 10 entries, and it is    *)
(* append-only: every step leaves the recorded votes unchanged and in order,   *)
(* and only a successful verify_work adds exactly one entry at the end.        *)

C10_VoteListBounded ==
    [][ /\ Len(bond'.verification_votes) <= 10
        /\ Initialized =>
            \/ bond'.verification_votes = bond.verification_votes
            \/ /\ result'.op = "verify_work" /\ result'.err = "Ok"
               /\ Len(bond'.verification_votes) = Len(bond.verification_votes) + 1
               /\ SubSeq(bond'.verification_votes, 1, Len(bond.verification_votes))
                    = bond.verification_votes
      ]_vars

----------------------------------------------------------------------------
(* C11 as stated: once a bond is Active it eventually reaches Completed or     *)
(* Slashed, provided the clock keeps advancing and finalize_bond keeps being   *)
(* called (weak fairness on both).                                             *)

C11_EventuallyTerminal == (bond.status = "Active") ~> Terminal

----------------------------------------------------------------------------
(* C12 as stated: create_bond fails with DescriptionTooLong for a description  *)
(* longer than 500, with CollateralTooLow for a collateral below 1,000,000,    *)
(* with InvalidDeadline for a deadline <= now, each whatever the other two     *)
(* parameters are; a failure leaves no bond; a success leaves a Pending bond   *)
(* with completed_at = 0, an empty proof_uri and no votes.                     *)

CreateInputs ==
    Principals \X AgentChoices \X DescriptionLens \X CollateralChoices \X DeadlineChoices

Created(i) == create_bond(i[1], i[2], i[3], i[4], i[5])

CreatedPending(o) ==
    /\ o.err = "Ok" /\ o.balances = balances
    /\ o.bond.status = "Pending" /\ o.bond.completed_at = I64(0)
    /\ o.bond.proof_uri = 0 /\ o.bond.verification_votes = << >>

C12_EachCheckIndependent ==
    ~Initialized =>
        \A i \in CreateInputs :
            /\ i[3] > 500 => Rejected(Created(i), "DescriptionTooLong")
            /\ i[4] < 1000000 => Rejected(Created(i), "CollateralTooLow")
            /\ I64Le(i[5], now) => Rejected(Created(i), "InvalidDeadline")
            /\ (i[3] <= 500 /\ i[4] >= 1000000 /\ I64Lt(now, i[5])) => CreatedPending(Created(i))

(* C12 amended: create_bond rejects invalid input before any state change and  *)
(* reports the first failed check in the order description, collateral,        *)
(* deadline: DescriptionTooLong whenever the description is longer than 500;   *)
(* CollateralTooLow when the description is valid and the collateral is below  *)
(* 1,000,000; InvalidDeadline when both are valid and deadline <= now          *)
(* (deadline = now included); a failure leaves no bond, a success a Pending    *)
(* bond with completed_at = 0, an empty proof_uri and no votes.                *)

C12_CreateValidation ==
    ~Initialized =>
        \A i \in CreateInputs :
            /\ i[3] > 500 => Rejected(Created(i), "DescriptionTooLong")
            /\ (i[3] <= 500 /\ i[4] < 1000000) => Rejected(Created(i), "CollateralTooLow")
            /\ (i[3] <= 500 /\ i[4] >= 1000000 /\ I64Le(i[5], now))
                    => Rejected(Created(i), "InvalidDeadline")
            /\ (i[3] <= 500 /\ i[4] >= 1000000 /\ I64Lt(now, i[5])) => CreatedPending(Created(i))

\* create_bond was refused for its deadline, and there is still no bond
C12_Witness ==
    ~Initialized /\ result.op = "create_bond" /\ result.err = "InvalidDeadline"

----------------------------------------------------------------------------
(* C13 as stated: stake_collateral on a Pending bond whose agent holds less    *)
(* than collateral_amount fails and leaves status Pending, the vault at zero   *)
(* and the agent's balance unchanged; a failing vault transfer inside          *)
(* finalize_bond or emergency_slash leaves status and completed_at as before.  *)

Underfunded == bond.status = "Pending" /\ balances[bond.agent] < bond.collateral_amount

\* a terminal branch whose transfer asks the vault for more than it holds
FailedSettlements ==
    { Settle(st, to, balances[Vault] + 1) :
        st \in {"Completed", "Slashed"}, to \in {bond.agent, bond.principal} }

----------------------------------------------------------------------------
(* C14: every terminal transition pays the vault's entire balance at that      *)
(* moment (collateral_amount plus the value sent to the vault from outside) in *)
(* one transfer to one recipient, bond.agent when the bond becomes Completed,  *)
(* bond.principal when it becomes Slashed; the third party receives nothing,   *)
(* and the agent's, the principal's and the vault's balances sum to the same   *)
(* amount before and after.                                                    *)

Sum3(bal) == bal[bond.agent] + bal[bond.principal] + bal[Vault]

C14_WholeVaultToOneRecipient ==
    [][ (Live /\ bond'.status \in {"Completed", "Slashed"})
        => /\ balances[Vault] = bond.collateral_amount + stray
           /\ PaidOutTo(IF bond'.status = "Completed" THEN bond.agent ELSE bond.principal)
           /\ balances'["V"] = balances["V"]
           /\ Sum3(balances') = Sum3(balances)
      ]_vars

\* the agent was paid its stake and the outside value that sat in the vault
C14_Witness ==
    /\ bond.status = "Completed" /\ Did("finalize_bond")
    /\ balances[bond.agent] = AgentFunds + StrayFunds
    /\ balances[bond.principal] = AgentFunds /\ balances[Vault] = 0

----------------------------------------------------------------------------
(* C15: with every call atomic, among any interleaved finalize_bond and        *)
(* emergency_slash calls at most one commits a terminal transition: the vault  *)
(* pays out at most once in the bond's life (only in the step that makes the   *)
(* bond terminal, and to the agent or the principal, never both), and on a     *)
(* terminal bond finalize_bond by anyone and emergency_slash by the principal  *)
(* fail with InvalidBondStatus.                                                *)

C15_AtMostOneSettlement ==
    [][ /\ balances'[Vault] < balances[Vault]
            => /\ Live /\ bond'.status \in {"Completed", "Slashed"}
               /\ result'.op \in {"finalize_bond", "emergency_slash"}
               /\ \/ balances'[bond.agent] = balances[bond.agent]
                  \/ balances'[bond.principal] = balances[bond.principal]
        /\ Terminal
            => /\ bond' = bond
               /\ balances'[Vault] >= balances[Vault]
               /\ balances'[bond.agent] = balances[bond.agent]
               /\ balances'[bond.principal] = balances[bond.principal]
               /\ result'.op = "finalize_bond" => result'.err = "InvalidBondStatus"
               /\ Rejected(emergency_slash(bond.principal), "InvalidBondStatus")
      ]_vars

\* the principal's emergency_slash won over an approving quorum, and the
\* finalize_bond that came after it was refused
C15_Witness ==
    /\ bond.status = "Slashed" /\ ApproveWins
    /\ result = [op |-> "finalize_bond", err |-> "InvalidBondStatus"]
    /\ balances[bond.principal] = AgentFunds + bond.collateral_amount

----------------------------------------------------------------------------
(* C16: submit_proof by the agent on an Active bond succeeds exactly when      *)
(* now <= deadline (now = deadline included; later it fails with               *)
(* DeadlineExceeded) and the proof_uri is at most 200 long (else               *)
(* ProofUriTooLong); a success changes only proof_uri and status (to           *)
(* PendingVerification) and moves no value; a failure changes nothing.         *)

C16_SubmitProof ==
    bond.status = "Active" =>
        \A u \in ProofUriLens :
            LET o == submit_proof(bond.agent, u) IN
            /\ I64Lt(bond.deadline, now) => Rejected(o, "DeadlineExceeded")
            /\ (I64Le(now, bond.deadline) /\ u > 200) => Rejected(o, "ProofUriTooLong")
            /\ (I64Le(now, bond.deadline) /\ u <= 200) =>
                    /\ o.err = "Ok"
                    /\ o.bond = [bond EXCEPT !.proof_uri = u, !.status = "PendingVerification"]
                    /\ o.balances = balances
            /\ o.err = "Ok" <=> (I64Le(now, bond.deadline) /\ u <= 200)

\* the proof was submitted at the deadline itself
C16_Witness ==
    /\ bond.status = "PendingVerification" /\ Did("submit_proof")
    /\ now = bond.deadline /\ bond.proof_uri = 200

----------------------------------------------------------------------------
(* C17: with reject = total - approve, approve*3 >= total*2 and                *)
(* reject*3 >= total*2 are both true only for total = 0, never for total >= 3; *)
(* both are false for some total >= 3 (a 2:2 split), and then finalize_bond    *)
(* takes neither the Completed nor the vote-based Slashed branch.              *)

NeitherWins == NTotal >= 3 /\ ~(NApprove * 3 >= NTotal * 2) /\ ~((NTotal - NApprove) * 3 >= NTotal * 2)

C17_MajoritiesExclusive ==
    /\ NReject = NTotal - NApprove
    /\ majority_approve(bond) <=> NApprove * 3 >= NTotal * 2
    /\ majority_slash(bond) <=> (NTotal - NApprove) * 3 >= NTotal * 2
    /\ (majority_approve(bond) /\ majority_slash(bond)) <=> NTotal = 0
    /\ (CanFinalize /\ NeitherWins) =>
            \A c \in Identities, oc \in BOOLEAN :
                LET o == finalize_bond(c, oc) IN
                /\ o.bond.status # "Completed"
                /\ o.bond.status = "Slashed" => GraceElapsed(bond)

\* a 2:2 split: there is a quorum, and finalize_bond answered QuorumNotReached
C17_Witness ==
    /\ NTotal = 4 /\ NApprove = 2 /\ NeitherWins
    /\ bond.status = "PendingVerification"
    /\ result = [op |-> "finalize_bond", err |-> "QuorumNotReached"]

----------------------------------------------------------------------------
(* C18 as stated: verify_work on a PendingVerification bond accepts a vote     *)
(* from every identity other than bond.agent, the principal and earlier voters *)
(* included, at any time.                                                      *)

VoteAccepted(c, ap) ==
    LET o == verify_work(c, ap) IN
    /\ o.err = "Ok"
    /\ o.bond = [bond EXCEPT !.verification_votes =
                    Append(@, [verifier |-> c, approve |-> ap, timestamp |-> now])]
    /\ o.bond.status = "PendingVerification"
    /\ o.balances = balances

VoteFits == BondSize(bond) + VOTE_SIZE <= MAX_SIZE

----------------------------------------------------------------------------
(* C19: the vote list is empty while the bond is Pending or Active, so a       *)
(* finalize_bond that gets past the precondition on an Active bond either      *)
(* fails with QuorumNotReached or auto-slashes. A bond becomes                 *)
(* PendingVerification only by a submit_proof on an Active bond at a time      *)
(* <= deadline, and Completed only from PendingVerification; every Completed   *)
(* bond holds at least 3 votes with approve*3 >= total*2. The clock never goes *)
(* back, so a bond staked after its deadline, or one with no proof submitted,  *)
(* can only end Slashed.                                                       *)

C19_CompletedOnlyAfterProof ==
    [][ /\ bond'.status \in {"Pending", "Active"}
            => bond'.verification_votes = << >> /\ bond'.proof_uri = 0
        /\ (bond.status = "Active" /\ I64Lt(bond.deadline, now) /\ result'.op = "finalize_bond")
            => \/ result'.err = "QuorumNotReached" /\ bond' = bond
               \/ result'.err = "Ok" /\ bond'.status = "Slashed" /\ GraceOver
        /\ (bond'.status = "PendingVerification" /\ bond.status # "PendingVerification")
            => /\ bond.status = "Active" /\ I64Le(now, bond.deadline)
               /\ result' = [op |-> "submit_proof", err |-> "Ok"]
        /\ (bond'.status = "Completed" /\ bond.status # "Completed")
            => bond.status = "PendingVerification"
        /\ bond'.status = "Completed"
            => /\ Len(bond'.verification_votes) >= 3
               /\ NApprove * 3 >= NTotal * 2
               /\ bond'.verification_votes = bond.verification_votes
               /\ bond'.proof_uri > 0
        /\ (bond.status \in {"Pending", "Active"} /\ bond'.status \in {"Completed", "Slashed"})
            => bond'.status = "Slashed"
        /\ I64Le(now, now')
        /\ (bond.status = "Active" /\ I64Lt(bond.deadline, now))
            => \A u \in ProofUriLens : Rejected(submit_proof(bond.agent, u), "DeadlineExceeded")
      ]_vars

\* a bond completed on two approvals out of three
C19_Witness ==
    /\ bond.status = "Completed" /\ Did("finalize_bond")
    /\ NTotal = 3 /\ NApprove = 2
    /\ bond.proof_uri = 200

----------------------------------------------------------------------------
(* C20 as stated: whenever finalize_bond comes to compare now with             *)
(* bond.deadline + 86400 (precondition met, no two-thirds decision), the sum   *)
(* does not overflow a signed 64-bit integer.                                  *)

C20_GraceSumInRange ==
    [][ (result'.op = "finalize_bond" /\ CanFinalize /\ ~ApproveWins /\ ~RejectWins)
            => ~I64AddOverflows(bond.deadline, GRACE_PERIOD)
      ]_vars

====
